---- MODULE Spec2Model ----
(***************************************************************************)
(* A model of lib/QueryBuilder.js: the fluent builder, the namespace       *)
(* version kept in Redis, the derivation of the cache key and the          *)
(* cache-aside execution of findAll / findOne, and invalidate.             *)
(*                                                                         *)
(* Every await of the code is one step of a process, so that the store     *)
(* operations of concurrent reads and invalidations interleave as they do  *)
(* on the event loop and on the Redis server.                              *)
(***************************************************************************)
EXTENDS Integers, Sequences, FiniteSets, TLC

\* ------------------------------------------------------------ bounds
NumProcs == 2       \* concurrent callers (async call chains in flight)
MaxOps == 3         \* findAll / findOne / invalidate calls in a run of Spec
MaxSeqOps == 3      \* the same, in a run of SpecSeq
MaxRaceOps == 5     \* the same, in a run of SpecRace
MaxFaults == 1      \* store or engine operations that throw in a run
MaxExpire == 1      \* cache entries the store expires in a run
MaxConfig == 1      \* filter / cache calls in a run
MaxBuildOps == 4    \* configuration calls in a run of SpecBuild
MaxOverlapOps == 2  \* findAll / invalidate calls in a run of SpecOverlap

Procs == 1..NumProcs
Builders == {1}
Resources == {"User", "Post"}
Methods == {"findAll", "findOne"}

\* ------------------------------------------------------------ JavaScript values
\* One shape for every JavaScript value the code handles: t is the type,
\* n the number, s the characters of a string (a sequence of tokens) or the
\* rows of an array / the row of an object.
JSNull == [t |-> "null", n |-> 0, s |-> <<>>]
JSUndef == [t |-> "undef", n |-> 0, s |-> <<>>]
JSNum(k) == [t |-> "num", n |-> k, s |-> <<>>]
JSStr(toks) == [t |-> "str", n |-> 0, s |-> toks]
JSObj(row) == [t |-> "obj", n |-> 0, s |-> <<row>>]
JSArr(rows) == [t |-> "arr", n |-> 0, s |-> rows]

\* JavaScript truthiness, as used by `if (x)`, `!x` and `x ? a : b`.
Truthy(v) ==
    CASE v.t = "null" -> FALSE
      [] v.t = "undef" -> FALSE
      [] v.t = "num" -> v.n # 0
      [] v.t = "str" -> v.s # <<>>
      [] OTHER -> TRUE

Digits == <<"0", "1", "2", "3", "4", "5", "6", "7", "8", "9">>

\* Number.prototype.toString for an integer, one token per digit.
RECURSIVE Dec(_)
Dec(k) == IF k < 0 THEN <<"-">> \o Dec(0 - k)
          ELSE IF k < 10 THEN <<Digits[k + 1]>>
          ELSE Dec(k \div 10) \o <<Digits[(k % 10) + 1]>>

DigitVal(d) == CHOOSE i \in 0..9 : Digits[i + 1] = d

\* parseInt of a string of decimal digits.
RECURSIVE ParseInt(_)
ParseInt(toks) ==
    IF Len(toks) = 1 THEN DigitVal(toks[1])
    ELSE 10 * ParseInt(SubSeq(toks, 1, Len(toks) - 1)) + DigitVal(toks[Len(toks)])

\* The rows of a result, each written {row}, separated by commas.
RECURSIVE RowsJSON(_)
RowsJSON(rows) ==
    IF rows = <<>> THEN <<>>
    ELSE IF Len(rows) = 1 THEN <<"{", rows[1], "}">>
    ELSE <<"{", rows[1], "}", ",">> \o RowsJSON(Tail(rows))

\* JSON.stringify of a scalar or of a query result.
JSONStringify(v) ==
    CASE v.t = "null" -> <<"null">>
      [] v.t = "num" -> Dec(v.n)
      [] v.t = "str" -> <<"\"">> \o v.s \o <<"\"">>
      [] v.t = "obj" -> <<"{", v.s[1], "}">>
      [] v.t = "arr" -> <<"[">> \o RowsJSON(v.s) \o <<"]">>
      [] OTHER -> <<>>

\* The rows between the brackets of a serialized array, from token i on.
RECURSIVE ParseRows(_, _)
ParseRows(toks, i) ==
    IF i > Len(toks) \/ toks[i] # "{" THEN <<>>
    ELSE <<toks[i + 1]>> \o ParseRows(toks, i + 4)

\* JSON.parse of what JSONStringify wrote.
JSONParse(toks) ==
    CASE toks = <<"null">> -> JSNull
      [] toks[1] = "{" -> JSObj(toks[2])
      [] toks[1] = "[" -> JSArr(ParseRows(toks, 2))
      [] toks[1] = "\"" -> JSStr(SubSeq(toks, 2, Len(toks) - 1))
      [] OTHER -> JSNum(ParseInt(toks))

\* ------------------------------------------------------------ the query descriptor
\* this.query as the constructor leaves it.  where is an object: its
\* properties in insertion order, each [k |-> name, v |-> value].
EmptyQuery ==
    [where |-> <<>>, include |-> <<>>, attributes |-> JSNull,
     order |-> <<>>, limit |-> JSNull, offset |-> JSNull]

\* this.query.attributes is null, an array of names, or { include: [..] }.
\* An item of either array is a name, or the pair [expression, name] of a
\* virtual attribute: expr is "" for a plain name.
Plain(name) == [expr |-> "", name |-> name]
Virtual(expr, name) == [expr |-> expr, name |-> name]
JSNames(items) == [t |-> "names", n |-> 0, s |-> items]
JSInclude(items) == [t |-> "include", n |-> 0, s |-> items]

\* One property assignment of Object.assign: an existing property keeps its
\* place and takes the new value, a new one is added at the end.
SetPropKeepFirst(w, kv) ==
    IF \E i \in 1..Len(w) : w[i].k = kv.k THEN w ELSE Append(w, kv)
SetProp(w, kv) ==
    IF \E i \in 1..Len(w) : w[i].k = kv.k
    THEN [i \in 1..Len(w) |-> IF w[i].k = kv.k THEN kv ELSE w[i]]
    ELSE Append(w, kv)

RECURSIVE ObjectAssign(_, _)
ObjectAssign(w, f) ==
    IF f = <<>> THEN w ELSE ObjectAssign(SetProp(w, Head(f)), Tail(f))

\* { ...this.query, ...options }: a property of options replaces the query's.
EffectiveQuery(q, o) ==
    [q EXCEPT !.limit = IF o.limit.t = "undef" THEN @ ELSE o.limit]

\* The virtual attributes a model declares: name -> SQL literal.
VirtualAttributes(model) ==
    IF model = "User"
    THEN [totalViews |-> "(SELECT COUNT(*) FROM Views ..)",
          totalPosts |-> "(SELECT COUNT(*) FROM Posts ..)"]
    ELSE [a \in {} |-> ""]

\* Names every object literal inherits from Object.prototype; each is a
\* function.
ObjectPrototype == {"constructor", "toString"}

\* modelVirtuals[attr]: the literal of an own property, the function of an
\* inherited one, "" for undefined.
Lookup(model, attr) ==
    IF attr \in DOMAIN VirtualAttributes(model) THEN VirtualAttributes(model)[attr]
    ELSE IF attr \in ObjectPrototype THEN "function"
    ELSE ""

\* select(attributes): what this.query.attributes is assigned.
SelectAttributes(model, attributes) ==
    LET IsVirtual(a) == Lookup(model, a) # ""
        IsReal(a) == ~IsVirtual(a)
        realAttrs == SelectSeq(attributes, IsReal)
        virtualAttrs == SelectSeq(attributes, IsVirtual)
        reals == [i \in 1..Len(realAttrs) |-> Plain(realAttrs[i])]
        virts == [i \in 1..Len(virtualAttrs) |->
                    Virtual(Lookup(model, virtualAttrs[i]), virtualAttrs[i])]
    IN IF virtualAttrs = <<>>
       THEN (IF realAttrs = <<>> THEN JSNull ELSE JSNames(reals))
       ELSE JSInclude(reals \o virts)

\* paginate({ page = 1, pageSize = 10 }): a default replaces undefined.
Default(v, d) == IF v.t = "undef" THEN JSNum(d) ELSE v

\* this.query.limit = pageSize; this.query.offset = (page - 1) * pageSize
PageLimit(page, pageSize) == Default(pageSize, 10)
PageOffsetFromOne(page, pageSize) ==
    JSNum(Default(page, 1).n * Default(pageSize, 10).n)
PageOffset(page, pageSize) ==
    JSNum((Default(page, 1).n - 1) * Default(pageSize, 10).n)

\* this.query after { ...this.query, ...options } was built: the spread
\* copies into a new object and leaves this.query as it was.
QueryAfterAssign(q, o) == EffectiveQuery(q, o)
QueryAfterSpread(q, o) == q

\* JSON.stringify of the where object, properties in insertion order.
RECURSIVE WhereJSON(_)
WhereJSON(w) ==
    IF w = <<>> THEN <<>>
    ELSE <<"\"", w[1].k, "\"", ":">> \o JSONStringify(w[1].v)
         \o (IF Len(w) > 1 THEN <<",">> ELSE <<>>) \o WhereJSON(Tail(w))

\* JSON.stringify of the items of an attributes array.  A Sequelize literal
\* is written {"val": ..}; a function is written null.
RECURSIVE ItemsJSON(_)
ItemsJSON(items) ==
    IF items = <<>> THEN <<>>
    ELSE (IF items[1].expr = "" THEN <<"\"", items[1].name, "\"">>
          ELSE IF items[1].expr = "function"
          THEN <<"[", "null", ",", "\"", items[1].name, "\"", "]">>
          ELSE <<"[", "{", "val", items[1].expr, "}", ",",
                 "\"", items[1].name, "\"", "]">>)
         \o (IF Len(items) > 1 THEN <<",">> ELSE <<>>) \o ItemsJSON(Tail(items))

\* JSON.stringify of this.query.attributes.
AttributesJSON(a) ==
    CASE a.t = "names" -> <<"[">> \o ItemsJSON(a.s) \o <<"]">>
      [] a.t = "include" -> <<"{", "include", "[">> \o ItemsJSON(a.s) \o <<"]", "}">>
      [] OTHER -> JSONStringify(a)

\* JSON.stringify(this.query).
QueryJSON(q) ==
    <<"{", "where", "{">> \o WhereJSON(q.where) \o <<"}">>
    \o <<"include", "[">> \o q.include \o <<"]">>
    \o <<"attributes">> \o AttributesJSON(q.attributes)
    \o <<"order", "[">> \o q.order \o <<"]">>
    \o <<"limit">> \o JSONStringify(q.limit)
    \o <<"offset">> \o JSONStringify(q.offset) \o <<"}">>

\* JSON.stringify(keyData): model, version, method and query, in that order.
KeyDataJSON(model, version, method, q) ==
    <<"{", "model", model, "version">> \o JSONStringify(version)
    \o <<"method", method, "query">> \o QueryJSON(q) \o <<"}">>

\* The md5 digest in hex: a fixed function of its input, taken to be free of
\* collisions on the inputs of the model.
MD5(toks) == <<"md5">> \o toks

\* What _getCacheKey returns once the namespace version is known.
CacheKey(model, version, method, q) ==
    MD5(KeyDataJSON(model, version, method, q))

\* ------------------------------------------------------------ the Redis store
\* The store maps a key to the string it holds and its time to live in
\* seconds (0: none).  Keys and strings are sequences of tokens.
NsKey(modelName) == <<"ns:", modelName>>

EmptyStore == [k \in {} |-> [val |-> <<>>, ttl |-> 0]]

\* GET: the string, or null.
RedisGet(st, key) ==
    IF key \in DOMAIN st THEN JSStr(st[key].val) ELSE JSNull

\* The client sends a number argument as its decimal string.
ArgString(v) == IF v.t = "num" THEN Dec(v.n) ELSE v.s

Put(st, key, e) ==
    [k \in (DOMAIN st) \cup {key} |-> IF k = key THEN e ELSE st[k]]

\* SET and SETEX.
RedisSet(st, key, v) == Put(st, key, [val |-> ArgString(v), ttl |-> 0])
RedisSetEx(st, key, ttl, v) == Put(st, key, [val |-> ArgString(v), ttl |-> ttl])

Remove(st, key) == [k \in (DOMAIN st) \ {key} |-> st[k]]

\* The version a namespace key holds, absent counted as 0.
NumVer(st, modelName) ==
    IF NsKey(modelName) \in DOMAIN st THEN ParseInt(st[NsKey(modelName)].val) ELSE 0

\* invalidate: const next = current ? parseInt(current) + 1 : 1
NextVersionNoBump(current) ==
    IF Truthy(current) THEN ParseInt(current.s) ELSE 1
NextVersion(current) ==
    IF Truthy(current) THEN ParseInt(current.s) + 1 ELSE 1

\* invalidate bumps modelName first, then relatedModels in the given order.
BumpOrderReversed(modelName, relatedModels) == relatedModels \o <<modelName>>
BumpOrder(modelName, relatedModels) == <<modelName>> \o relatedModels

\* invalidate: await redisClient.set(key, next), and nothing else.
NsOnly(st) ==
    [k \in {j \in DOMAIN st : st[j].ttl = 0} |-> st[k]]
BumpVersionAndFlush(st, name, current) ==
    RedisSet(NsOnly(st), NsKey(name), JSNum(NextVersion(current)))
BumpVersion(st, name, current) ==
    RedisSet(st, NsKey(name), JSNum(NextVersion(current)))

\* findAll / findOne: if (key) await this._setCache(key, result) writes
\* under the key the call derived before its lookup.
WriteKeyRederived(key, model, version, method, q) ==
    CacheKey(model, version, method, q)
WriteKey(key, model, version, method, q) == key

\* findAll / findOne: this.cacheTTL ? await this._getCacheKey(..) : null
UsesCacheAlways(ttl) == TRUE
UsesCache(ttl) == Truthy(ttl)

\* ------------------------------------------------------------ inputs
\* What the query engine can answer: findAll an array of rows, findOne a row
\* or null.
EngineResults(method) ==
    IF method = "findAll"
    THEN {JSArr(<<>>), JSArr(<<"alice", "bob">>)}
    ELSE {JSNull, JSObj("alice")}

\* The options passed to findAll: none, or { limit: 1 }.  findOne, which
\* asks for one row, is called with none.
OptionSets == {[limit |-> JSUndef], [limit |-> JSNum(1)]}

\* The filters passed to filter().
FilterSets == {<<[k |-> "status", v |-> JSStr(<<"active">>)]>>}

\* The models builders are made for.
BuilderModels == {"User"}

\* The arguments of cache(): 60 seconds, and 0.
TTLs == {JSNum(60), JSNum(0)}

\* The arguments of invalidate().
InvalidateArgs ==
    {<<"User", <<>>>>, <<"Post", <<>>>>, <<"User", <<"Post">>>>}

\* The builders of SpecBuild, and the arguments of their configuration
\* calls: filter, select, include, sort and paginate.
BuildBuilders == {1, 2}

FilterMaps ==
    {<<[k |-> "status", v |-> JSStr(<<"active">>)]>>,
     <<[k |-> "role", v |-> JSStr(<<"admin">>)]>>,
     <<[k |-> "status", v |-> JSStr(<<"banned">>)]>>}

SelectSets ==
    {<<"id", "name">>, <<"id", "totalViews", "name">>, <<"totalViews">>,
     <<"id", "constructor">>}

Associations == {<<"Post">>}

Orders == {<<"createdAt DESC">>}

Pages == {JSUndef, JSNum(0), JSNum(2)}

\* What _getNamespaceVersion can return: the number 1 it has just written,
\* or the string the store holds.
Versions == {JSNum(1), JSStr(<<"1">>), JSStr(<<"2">>)}

PageSizes == {JSUndef, JSNum(0), JSNum(2)}

\* ------------------------------------------------------------ state
VARIABLES
    redisClient,  \* the module's redisClient: FALSE is null
    qb,           \* the builders: model, query, cacheTTL
    store,        \* the contents of Redis
    proc,         \* each caller's position and locals in the call it runs
    opsLeft, faultsLeft, expireLeft, configLeft,  \* what the bounds allow
    \* history, read by the properties only:
    era,          \* per cache key: invalidate calls begun when it was written
    invSeq,       \* invalidate calls begun
    maxDone,      \* per resource: the latest invalidate call completed on it
    expect,       \* per resource: initialised (0/1) plus bumps completed
    hist,         \* per builder and method: what the last read returned
    pop,          \* per builder and method: populated, then invalidated
    verSeen,      \* per resource: last version read since the last bump
    origin        \* per cache key: the read that wrote the entry

vars == <<redisClient, qb, store, proc,
          opsLeft, faultsLeft, expireLeft, configLeft,
          era, invSeq, maxDone, expect, hist, pop, verSeen, origin>>

NoOutcome == [t |-> "none", v |-> JSUndef, e |-> ""]
Value(v) == [t |-> "value", v |-> v, e |-> ""]
Error(e) == [t |-> "error", v |-> JSUndef, e |-> e]

NoVersions == [r \in Resources |-> 0]
NoHist == [b \in DOMAIN qb |-> [m \in Methods |-> JSUndef]]
NoPop == [b \in DOMAIN qb |-> [m \in Methods |-> "no"]]
NoOrigin == [model |-> "", method |-> "", arg |-> EmptyQuery]

\* A caller that runs nothing.
Idle ==
    [pc |-> "idle", kind |-> "none", b |-> 0, model |-> "", method |-> "",
     options |-> [limit |-> JSUndef], key |-> <<>>, version |-> JSNull,
     result |-> JSNull, related |-> <<>>, names |-> <<>>, i |-> 0,
     current |-> JSNull, outcome |-> NoOutcome,
     \* history of the call (query0, ttl0: the builder as the call found it):
     query0 |-> EmptyQuery, ttl0 |-> JSNull,
     calls |-> 0, sops |-> 0, arg |-> EmptyQuery, base |-> JSUndef,
     afterInv |-> FALSE, startDone |-> 0, hitEra |-> -1, verFirst |-> JSUndef,
     idx |-> 0, wlog |-> <<>>, snap |-> NoVersions, failedAt |-> "",
     found |-> FALSE, hitFrom |-> NoOrigin,
     \* the TTL of the entry the call wrote, and the stored version then:
     wttl |-> 0, wver |-> 0]

\* History of the configuration calls made on a builder: latest is the
\* value last given to each filter key, overwrote whether a filter call
\* changed the value of a key, paged the arguments of the last paginate call
\* and the offset it found, selected the argument of the last select call.
NoCalls ==
    [latest |-> [k \in {} |-> JSUndef], overwrote |-> FALSE,
     paged |-> <<>>, selected |-> [called |-> FALSE, names |-> <<>>],
     included |-> <<>>, sorted |-> <<>>]

NewBuilder ==
    [alive |-> FALSE, threw |-> FALSE, model |-> "", query |-> EmptyQuery,
     cacheTTL |-> JSNull, seen |-> NoCalls]

\* new QueryBuilder(model): the object, or the Error thrown with no client.
NewQueryBuilderUnchecked(client, model) ==
    [NewBuilder EXCEPT !.alive = TRUE, !.model = model]
NewQueryBuilder(client, model) ==
    IF client THEN [NewBuilder EXCEPT !.alive = TRUE, !.model = model]
    ELSE [NewBuilder EXCEPT !.threw = TRUE]

Init ==
    /\ redisClient = FALSE
    /\ qb = [b \in Builders |-> NewBuilder]
    /\ store = EmptyStore
    /\ proc = [p \in Procs |-> Idle]
    /\ opsLeft = MaxOps /\ faultsLeft = MaxFaults
    /\ expireLeft = MaxExpire /\ configLeft = MaxConfig
    /\ era = [k \in {} |-> 0]
    /\ invSeq = 0
    /\ maxDone = NoVersions
    /\ expect = NoVersions
    /\ hist = NoHist
    /\ pop = NoPop
    /\ verSeen = [r \in Resources |-> JSUndef]
    /\ origin = [k \in {} |-> NoOrigin]

counters == <<opsLeft, faultsLeft, expireLeft, configLeft>>
history == <<era, invSeq, maxDone, expect, hist, pop, verSeen, origin>>

InFlight(p) == proc[p].pc \notin {"idle", "done"}
Quiescent == \A p \in Procs : ~InFlight(p)
BuilderIdle(b) == \A p \in Procs : InFlight(p) => proc[p].b # b

\* A store or engine operation succeeds (TRUE) or throws (FALSE).
Fates == IF faultsLeft > 0 THEN {TRUE, FALSE} ELSE {TRUE}

\* History: an invalidation, an expiry or a failed operation comes between
\* the reads before it and the reads after it.
Forget(pr) == [q \in Procs |-> [pr[q] EXCEPT !.base = JSUndef]]

\* A call starts: the frames of the calls that have settled are gone, and
\* caller p runs the new frame.
Started(pr, p, frame) ==
    [q \in Procs |-> IF q = p THEN frame
                     ELSE IF pr[q].pc = "done" THEN Idle ELSE pr[q]]

Max(a, b) == IF a > b THEN a ELSE b

Return(pr, v) == [pr EXCEPT !.pc = "done", !.outcome = Value(v)]
ThrowWrapped(pr, e) ==
    [pr EXCEPT !.pc = "done", !.outcome = Error("Error"), !.failedAt = pr.pc]
Throw(pr, e) ==
    [pr EXCEPT !.pc = "done", !.outcome = Error(e), !.failedAt = pr.pc]

\* History: the filter keys mentioned so far, each with the value of the
\* last mention.
Given(latest, f) ==
    LET mentioned == {f[i].k : i \in 1..Len(f)}
        last(k) == CHOOSE i \in 1..Len(f) :
                      /\ f[i].k = k
                      /\ \A j \in 1..Len(f) : f[j].k = k => j <= i
    IN [k \in (DOMAIN latest) \cup mentioned |->
          IF k \in mentioned THEN f[last(k)].v ELSE latest[k]]

\* ------------------------------------------------------------ configuration
\* QueryBuilder.init(redis)
InitRedis ==
    /\ redisClient' = TRUE
    /\ UNCHANGED <<qb, store, proc, counters, history>>

\* new QueryBuilder(model): throws while no client is set.
Construct(b, model) ==
    /\ ~qb[b].alive
    /\ qb' = [qb EXCEPT ![b] = NewQueryBuilder(redisClient, model)]
    /\ UNCHANGED <<redisClient, store, proc, counters, history>>

\* filter(filters).  The chained calls of a builder run before its terminal
\* call: a builder is configured while no read of it is in flight.
Filter(b, f) ==
    /\ qb[b].alive /\ BuilderIdle(b) /\ configLeft > 0
    /\ qb' = [qb EXCEPT ![b].query.where = ObjectAssign(@, f),
                          ![b].seen.latest = Given(@, f),
                          ![b].seen.overwrote =
                              @ \/ \E i \in 1..Len(f) :
                                      /\ f[i].k \in DOMAIN qb[b].seen.latest
                                      /\ qb[b].seen.latest[f[i].k] # f[i].v]
    /\ configLeft' = configLeft - 1
    /\ hist' = [hist EXCEPT ![b] = [m \in Methods |-> JSUndef]]
    /\ pop' = [pop EXCEPT ![b] = [m \in Methods |-> "no"]]
    /\ UNCHANGED <<redisClient, store, proc, opsLeft, faultsLeft, expireLeft,
                   era, origin, invSeq, maxDone, expect, verSeen>>

\* cache(ttlSeconds)
Cache(b, ttl) ==
    /\ qb[b].alive /\ BuilderIdle(b) /\ configLeft > 0
    /\ qb' = [qb EXCEPT ![b].cacheTTL = ttl]
    /\ configLeft' = configLeft - 1
    /\ hist' = [hist EXCEPT ![b] = [m \in Methods |-> JSUndef]]
    /\ pop' = [pop EXCEPT ![b] = [m \in Methods |-> "no"]]
    /\ UNCHANGED <<redisClient, store, proc, opsLeft, faultsLeft, expireLeft,
                   era, origin, invSeq, maxDone, expect, verSeen>>

\* select(attributes)
Select(b, attributes) ==
    /\ qb[b].alive /\ BuilderIdle(b) /\ configLeft > 0
    /\ qb' = [qb EXCEPT ![b].query.attributes =
                              SelectAttributes(qb[b].model, attributes),
                          ![b].seen.selected =
                              [called |-> TRUE, names |-> attributes]]
    /\ configLeft' = configLeft - 1
    /\ hist' = [hist EXCEPT ![b] = [m \in Methods |-> JSUndef]]
    /\ pop' = [pop EXCEPT ![b] = [m \in Methods |-> "no"]]
    /\ UNCHANGED <<redisClient, store, proc, opsLeft, faultsLeft, expireLeft,
                   era, origin, invSeq, maxDone, expect, verSeen>>

\* include(associations): this.query.include.push(...associations)
Include(b, associations) ==
    /\ qb[b].alive /\ BuilderIdle(b) /\ configLeft > 0
    /\ qb' = [qb EXCEPT ![b].query.include = @ \o associations,
                          ![b].seen.included = @ \o associations]
    /\ configLeft' = configLeft - 1
    /\ hist' = [hist EXCEPT ![b] = [m \in Methods |-> JSUndef]]
    /\ pop' = [pop EXCEPT ![b] = [m \in Methods |-> "no"]]
    /\ UNCHANGED <<redisClient, store, proc, opsLeft, faultsLeft, expireLeft,
                   era, origin, invSeq, maxDone, expect, verSeen>>

\* sort(order): this.query.order = order
Sort(b, order) ==
    /\ qb[b].alive /\ BuilderIdle(b) /\ configLeft > 0
    /\ qb' = [qb EXCEPT ![b].query.order = order,
                          ![b].seen.sorted = order]
    /\ configLeft' = configLeft - 1
    /\ hist' = [hist EXCEPT ![b] = [m \in Methods |-> JSUndef]]
    /\ pop' = [pop EXCEPT ![b] = [m \in Methods |-> "no"]]
    /\ UNCHANGED <<redisClient, store, proc, opsLeft, faultsLeft, expireLeft,
                   era, origin, invSeq, maxDone, expect, verSeen>>

\* paginate({ page, pageSize }): no argument is refused.
Paginate(b, page, pageSize) ==
    /\ qb[b].alive /\ BuilderIdle(b) /\ configLeft > 0
    /\ qb' = [qb EXCEPT ![b].query.limit = PageLimit(page, pageSize),
                          ![b].query.offset = PageOffset(page, pageSize),
                          ![b].seen.paged =
                              <<page, pageSize, qb[b].query.offset>>]
    /\ configLeft' = configLeft - 1
    /\ hist' = [hist EXCEPT ![b] = [m \in Methods |-> JSUndef]]
    /\ pop' = [pop EXCEPT ![b] = [m \in Methods |-> "no"]]
    /\ UNCHANGED <<redisClient, store, proc, opsLeft, faultsLeft, expireLeft,
                   era, origin, invSeq, maxDone, expect, verSeen>>

\* ------------------------------------------------------------ findAll / findOne
\* The call, up to its first await: the key is derived only with a TTL.
ExecuteRead(p, b, m, o) ==
    /\ ~InFlight(p) /\ opsLeft > 0 /\ qb[b].alive
    /\ proc' = Started(proc, p,
          [Idle EXCEPT
             !.pc = IF UsesCache(qb[b].cacheTTL) THEN "nsGet" ELSE "engine",
             !.kind = "read", !.b = b, !.model = qb[b].model, !.method = m,
             !.options = o, !.query0 = qb[b].query, !.ttl0 = qb[b].cacheTTL,
             !.base = hist[b][m],
             !.afterInv = (pop[b][m] = "inv"),
             !.startDone = maxDone[qb[b].model]])
    /\ pop' = [pop EXCEPT ![b][m] = IF @ = "inv" THEN "no" ELSE @]
    /\ opsLeft' = opsLeft - 1
    /\ UNCHANGED <<redisClient, qb, store, faultsLeft, expireLeft, configLeft,
                   era, origin, invSeq, maxDone, expect, hist, verSeen>>

FindAll(p, b, o) == ExecuteRead(p, b, "findAll", o)
FindOne(p, b, o) == ExecuteRead(p, b, "findOne", o)

\* _getNamespaceVersion: let version = await redisClient.get(key)
NsGet(p) ==
    LET me == proc[p]
        v == RedisGet(store, NsKey(me.model))
    IN
    /\ me.pc = "nsGet"
    /\ \E ok \in Fates :
         IF ok
         THEN /\ IF Truthy(v)
                 THEN /\ proc' = [proc EXCEPT ![p] =
                            [me EXCEPT !.pc = "check", !.version = v,
                               !.key = CacheKey(me.model, v, me.method,
                                                qb[me.b].query),
                               !.sops = @ + 1,
                               !.verFirst = verSeen[me.model]]]
                      /\ verSeen' = [verSeen EXCEPT ![me.model] = v]
                 ELSE /\ proc' = [proc EXCEPT ![p] =
                            [me EXCEPT !.pc = "nsSet", !.version = JSNum(1),
                               !.sops = @ + 1]]
                      /\ UNCHANGED verSeen
              /\ UNCHANGED <<faultsLeft, hist>>
         ELSE /\ proc' = Forget([proc EXCEPT ![p] =
                            Throw([me EXCEPT !.sops = @ + 1], "StoreError")])
              /\ faultsLeft' = faultsLeft - 1
              /\ hist' = NoHist
              /\ UNCHANGED verSeen
    /\ UNCHANGED <<redisClient, qb, store, opsLeft, expireLeft, configLeft,
                   era, origin, invSeq, maxDone, expect, pop>>

\* _getNamespaceVersion: version = 1; await redisClient.set(key, version),
\* then the rest of _getCacheKey.
NsSet(p) ==
    LET me == proc[p] IN
    /\ me.pc = "nsSet"
    /\ \E ok \in Fates :
         IF ok
         THEN /\ store' = RedisSet(store, NsKey(me.model), me.version)
              /\ proc' = [proc EXCEPT ![p] =
                    [me EXCEPT !.pc = "check",
                       !.key = CacheKey(me.model, me.version, me.method,
                                        qb[me.b].query),
                       !.sops = @ + 1,
                       !.wlog = Append(@, NsKey(me.model)),
                       !.verFirst = verSeen[me.model]]]
              /\ verSeen' = [verSeen EXCEPT ![me.model] = me.version]
              /\ expect' = [expect EXCEPT ![me.model] = IF @ = 0 THEN 1 ELSE @]
              /\ UNCHANGED <<faultsLeft, hist>>
         ELSE /\ proc' = Forget([proc EXCEPT ![p] =
                            Throw([me EXCEPT !.sops = @ + 1], "StoreError")])
              /\ faultsLeft' = faultsLeft - 1
              /\ hist' = NoHist
              /\ UNCHANGED <<store, verSeen, expect>>
    /\ UNCHANGED <<redisClient, qb, opsLeft, expireLeft, configLeft,
                   era, origin, invSeq, maxDone, pop>>

\* _checkCache: the parsed entry, or null.
FromCache(cached) == IF Truthy(cached) THEN JSONParse(cached.s) ELSE JSNull

\* const cached = await this._checkCache(key); if (cached) return cached;
CheckCache(p) ==
    LET me == proc[p]
        cached == FromCache(RedisGet(store, me.key))
    IN
    /\ me.pc = "check"
    /\ \E ok \in Fates :
         IF ok
         THEN /\ IF Truthy(cached)
                 THEN /\ proc' = [proc EXCEPT ![p] =
                            Return([me EXCEPT !.sops = @ + 1,
                                      !.found = TRUE,
                                      !.hitEra = era[me.key],
                                      !.hitFrom = origin[me.key]], cached)]
                      /\ hist' = [hist EXCEPT ![me.b][me.method] = cached]
                 ELSE /\ proc' = [proc EXCEPT ![p] =
                            [me EXCEPT !.pc = "engine", !.sops = @ + 1,
                               !.found = (me.key \in DOMAIN store)]]
                      /\ UNCHANGED hist
              /\ UNCHANGED faultsLeft
         ELSE /\ proc' = Forget([proc EXCEPT ![p] =
                            Throw([me EXCEPT !.sops = @ + 1], "StoreError")])
              /\ faultsLeft' = faultsLeft - 1
              /\ hist' = NoHist
    /\ UNCHANGED <<redisClient, qb, store, opsLeft, expireLeft, configLeft,
                   era, origin, invSeq, maxDone, expect, pop, verSeen>>

\* const result = await this.model.findAll({ ...this.query, ...options })
Engine(p) ==
    LET me == proc[p]
        called == [me EXCEPT !.calls = @ + 1,
                     !.arg = EffectiveQuery(qb[me.b].query, me.options)]
    IN
    /\ me.pc = "engine"
    /\ \E ok \in Fates, r \in EngineResults(me.method) :
         IF ok
         THEN /\ proc' = [proc EXCEPT ![p] =
                    IF me.key # <<>>
                    THEN [called EXCEPT !.pc = "setCache", !.result = r]
                    ELSE Return([called EXCEPT !.result = r], r)]
              /\ UNCHANGED faultsLeft
         ELSE /\ proc' = [proc EXCEPT ![p] = Throw(called, "EngineError")]
              /\ faultsLeft' = faultsLeft - 1
    /\ qb' = [qb EXCEPT ![me.b].query = QueryAfterSpread(@, me.options)]
    /\ UNCHANGED <<redisClient, store, opsLeft, expireLeft, configLeft, history>>

\* if (key) await this._setCache(key, result); return result;
SetCache(p) ==
    LET me == proc[p]
        ttl == qb[me.b].cacheTTL
        wkey == WriteKey(me.key, me.model, RedisGet(store, NsKey(me.model)),
                         me.method, qb[me.b].query)
    IN
    /\ me.pc = "setCache"
    /\ \E ok \in Fates :
         IF ~Truthy(ttl)
         THEN /\ ok
              /\ proc' = [proc EXCEPT ![p] = Return(me, me.result)]
              /\ UNCHANGED <<store, era, origin, pop, hist, faultsLeft>>
         ELSE IF ok
         THEN /\ store' = RedisSetEx(store, wkey, ttl.n,
                                     JSStr(JSONStringify(me.result)))
              /\ era' = [k \in (DOMAIN era) \cup {wkey} |->
                           IF k = wkey THEN invSeq ELSE era[k]]
              /\ origin' = [k \in (DOMAIN origin) \cup {wkey} |->
                              IF k = wkey
                              THEN [model |-> me.model, method |-> me.method,
                                    arg |-> me.arg]
                              ELSE origin[k]]
              /\ proc' = [proc EXCEPT ![p] =
                    Return([me EXCEPT !.sops = @ + 1,
                              !.wlog = Append(@, wkey),
                              !.wttl = ttl.n,
                              !.wver = NumVer(store, me.model)], me.result)]
              /\ pop' = [pop EXCEPT ![me.b][me.method] = "pop"]
              /\ hist' = [hist EXCEPT ![me.b][me.method] = me.result]
              /\ UNCHANGED faultsLeft
         ELSE /\ proc' = Forget([proc EXCEPT ![p] =
                            Throw([me EXCEPT !.sops = @ + 1], "StoreError")])
              /\ faultsLeft' = faultsLeft - 1
              /\ hist' = NoHist
              /\ UNCHANGED <<store, era, origin, pop>>
    /\ UNCHANGED <<redisClient, qb, opsLeft, expireLeft, configLeft,
                   invSeq, maxDone, expect, verSeen>>

\* ------------------------------------------------------------ invalidate
\* The call, up to its first await.  With no client set, redisClient.get
\* is a property of null: the call rejects with a TypeError.
Invalidate(p, modelName, relatedModels) ==
    /\ ~InFlight(p) /\ opsLeft > 0
    /\ IF redisClient
       THEN /\ proc' = Forget(Started(proc, p,
                  [Idle EXCEPT !.pc = "invGet", !.kind = "inv",
                     !.model = modelName, !.related = relatedModels,
                     !.names = BumpOrder(modelName, relatedModels), !.i = 1,
                     !.idx = invSeq + 1,
                     !.snap = [r \in Resources |-> NumVer(store, r)]]))
            /\ invSeq' = invSeq + 1
            /\ hist' = NoHist
       ELSE /\ proc' = Started(proc, p,
                  Throw([Idle EXCEPT !.kind = "inv",
                           !.model = modelName, !.related = relatedModels,
                           !.names = BumpOrder(modelName, relatedModels),
                           !.snap = [r \in Resources |-> NumVer(store, r)]],
                        "TypeError"))
            /\ UNCHANGED <<invSeq, hist>>
    /\ opsLeft' = opsLeft - 1
    /\ UNCHANGED <<redisClient, qb, store, faultsLeft, expireLeft, configLeft,
                   era, origin, maxDone, expect, pop, verSeen>>

\* const current = await redisClient.get(key)
InvGet(p) ==
    LET me == proc[p] IN
    /\ me.pc = "invGet"
    /\ \E ok \in Fates :
         IF ok
         THEN /\ proc' = [proc EXCEPT ![p] =
                    [me EXCEPT !.pc = "invSet", !.sops = @ + 1,
                       !.current = RedisGet(store, NsKey(me.names[me.i]))]]
              /\ UNCHANGED <<faultsLeft, hist>>
         ELSE /\ proc' = Forget([proc EXCEPT ![p] =
                            Throw([me EXCEPT !.sops = @ + 1], "StoreError")])
              /\ faultsLeft' = faultsLeft - 1
              /\ hist' = NoHist
    /\ UNCHANGED <<redisClient, qb, store, opsLeft, expireLeft, configLeft,
                   era, origin, invSeq, maxDone, expect, pop, verSeen>>

\* await redisClient.set(key, next), then the next related model or the end.
InvSet(p) ==
    LET me == proc[p]
        name == me.names[me.i]
        bumped == [me EXCEPT !.sops = @ + 1, !.i = @ + 1,
                     !.wlog = Append(@, NsKey(name))]
        last == me.i = Len(me.names)
        named == {me.names[j] : j \in 1..Len(me.names)}
    IN
    /\ me.pc = "invSet"
    /\ \E ok \in Fates :
         IF ok
         THEN /\ store' = BumpVersion(store, name, me.current)
              /\ proc' = Forget([proc EXCEPT ![p] =
                    IF last THEN Return(bumped, JSUndef)
                    ELSE [bumped EXCEPT !.pc = "invGet"]])
              /\ expect' = [expect EXCEPT ![name] = @ + 1]
              /\ verSeen' = [verSeen EXCEPT ![name] = JSUndef]
              /\ maxDone' = IF last
                            THEN [r \in Resources |->
                                    IF r \in named THEN Max(maxDone[r], me.idx)
                                    ELSE maxDone[r]]
                            ELSE maxDone
              /\ pop' = IF last
                        THEN [b \in DOMAIN qb |-> [m \in Methods |->
                                IF qb[b].model \in named /\ pop[b][m] = "pop"
                                THEN "inv" ELSE pop[b][m]]]
                        ELSE pop
              /\ UNCHANGED faultsLeft
         ELSE /\ proc' = Forget([proc EXCEPT ![p] =
                            Throw([me EXCEPT !.sops = @ + 1], "StoreError")])
              /\ faultsLeft' = faultsLeft - 1
              /\ UNCHANGED <<store, expect, verSeen, maxDone, pop>>
    /\ hist' = NoHist
    /\ UNCHANGED <<redisClient, qb, opsLeft, expireLeft, configLeft,
                   era, origin, invSeq>>

\* ------------------------------------------------------------ the store's expiry
\* Redis drops an entry written with a time to live.
Expire(k) ==
    /\ k \in DOMAIN store /\ store[k].ttl > 0 /\ expireLeft > 0
    /\ store' = Remove(store, k)
    /\ era' = [j \in (DOMAIN era) \ {k} |-> era[j]]
    /\ origin' = [j \in (DOMAIN origin) \ {k} |-> origin[j]]
    /\ expireLeft' = expireLeft - 1
    /\ proc' = Forget(proc)
    /\ hist' = NoHist
    /\ UNCHANGED <<redisClient, qb, opsLeft, faultsLeft, configLeft,
                   invSeq, maxDone, expect, pop, verSeen>>

\* ------------------------------------------------------------ specifications
Configure ==
    \/ InitRedis
    \/ \E b \in Builders, model \in BuilderModels : Construct(b, model)
    \/ \E b \in Builders, f \in FilterSets : Filter(b, f)
    \/ \E b \in Builders, ttl \in TTLs : Cache(b, ttl)

Call(p) ==
    \/ \E b \in Builders, o \in OptionSets : FindAll(p, b, o)
    \/ \E b \in Builders : FindOne(p, b, [limit |-> JSUndef])
    \/ \E a \in InvalidateArgs : Invalidate(p, a[1], a[2])

Step(p) ==
    \/ NsGet(p) \/ NsSet(p) \/ CheckCache(p) \/ Engine(p) \/ SetCache(p)
    \/ InvGet(p) \/ InvSet(p)

\* Callers run concurrently: their awaits interleave.
Next ==
    \/ Configure
    \/ \E p \in Procs : Call(p) \/ Step(p)
    \/ \E k \in DOMAIN store : Expire(k)

Spec == Init /\ [][Next]_vars

\* One caller, one call at a time: a call starts when the one before it has
\* settled.
NextSeq ==
    \/ Configure
    \/ Quiescent /\ Call(1)
    \/ \E p \in Procs : Step(p)
    \/ \E k \in DOMAIN store : Expire(k)

\* Redis outlives the process: at start the namespace of User was never
\* observed, or an earlier run has left its version at 1.
InitSeq ==
    /\ redisClient = FALSE
    /\ qb = [b \in Builders |-> NewBuilder]
    /\ \E seen \in BOOLEAN :
          /\ store = IF seen THEN RedisSet(EmptyStore, NsKey("User"), JSNum(1))
                     ELSE EmptyStore
          /\ expect = [r \in Resources |->
                         IF seen /\ r = "User" THEN 1 ELSE 0]
    /\ proc = [p \in Procs |-> Idle]
    /\ opsLeft = MaxSeqOps /\ faultsLeft = MaxFaults
    /\ expireLeft = MaxExpire /\ configLeft = MaxConfig
    /\ era = [k \in {} |-> 0]
    /\ invSeq = 0
    /\ maxDone = NoVersions
    /\ hist = NoHist
    /\ pop = NoPop
    /\ verSeen = [r \in Resources |-> JSUndef]
    /\ origin = [k \in {} |-> NoOrigin]

SpecSeq == InitSeq /\ [][NextSeq]_vars

\* The races of findAll and invalidate on one resource: a builder of User
\* with cache(60) is in place, the store is reliable and nothing expires.
InitRace ==
    /\ redisClient = TRUE
    /\ qb = [b \in Builders |->
               [NewBuilder EXCEPT !.alive = TRUE, !.model = "User",
                                  !.cacheTTL = JSNum(60)]]
    /\ store = EmptyStore
    /\ proc = [p \in Procs |-> Idle]
    /\ opsLeft = MaxRaceOps /\ faultsLeft = 0
    /\ expireLeft = 0 /\ configLeft = 0
    /\ era = [k \in {} |-> 0]
    /\ invSeq = 0
    /\ maxDone = NoVersions
    /\ expect = NoVersions
    /\ hist = NoHist
    /\ pop = NoPop
    /\ verSeen = [r \in Resources |-> JSUndef]
    /\ origin = [k \in {} |-> NoOrigin]

NextRace ==
    \E p \in Procs :
        \/ \E b \in Builders : FindAll(p, b, [limit |-> JSUndef])
        \/ Invalidate(p, "User", <<>>)
        \/ Step(p)

SpecRace == InitRace /\ [][NextRace]_vars

\* Overlapping calls on one resource, a few of them, on a store whose
\* operations can fail.
InitOverlap ==
    /\ redisClient = TRUE
    /\ qb = [b \in Builders |->
               [NewBuilder EXCEPT !.alive = TRUE, !.model = "User",
                                  !.cacheTTL = JSNum(60)]]
    /\ store = EmptyStore
    /\ proc = [p \in Procs |-> Idle]
    /\ opsLeft = MaxOverlapOps /\ faultsLeft = MaxFaults
    /\ expireLeft = 0 /\ configLeft = 0
    /\ era = [k \in {} |-> 0]
    /\ invSeq = 0
    /\ maxDone = NoVersions
    /\ expect = NoVersions
    /\ hist = NoHist
    /\ pop = NoPop
    /\ verSeen = [r \in Resources |-> JSUndef]
    /\ origin = [k \in {} |-> NoOrigin]

SpecOverlap == InitOverlap /\ [][NextRace]_vars

\* The fluent configuration: two builders of User with cache(60) are
\* configured by chained calls; no read is executed.
InitBuild ==
    /\ redisClient = TRUE
    /\ qb = [b \in BuildBuilders |->
               [NewBuilder EXCEPT !.alive = TRUE, !.model = "User",
                                  !.cacheTTL = JSNum(60)]]
    /\ store = EmptyStore
    /\ expect = NoVersions
    /\ proc = [p \in Procs |-> Idle]
    /\ opsLeft = 0 /\ faultsLeft = 0
    /\ expireLeft = 0 /\ configLeft = MaxBuildOps
    /\ era = [k \in {} |-> 0]
    /\ invSeq = 0
    /\ maxDone = NoVersions
    /\ hist = NoHist
    /\ pop = NoPop
    /\ verSeen = [r \in Resources |-> JSUndef]
    /\ origin = [k \in {} |-> NoOrigin]

NextBuild ==
    \/ \E b \in BuildBuilders, f \in FilterMaps : Filter(b, f)
    \/ \E b \in BuildBuilders, a \in SelectSets : Select(b, a)
    \/ \E b \in BuildBuilders, a \in Associations : Include(b, a)
    \/ \E b \in BuildBuilders, o \in Orders : Sort(b, o)
    \/ \E b \in BuildBuilders, page \in Pages, pageSize \in PageSizes :
          Paginate(b, page, pageSize)

SpecBuild == InitBuild /\ [][NextBuild]_vars

\* ------------------------------------------------------------ properties
IsRead(p) == proc[p].kind = "read"
IsInvalidate(p) == proc[p].kind = "inv" /\ proc[p].pc # "idle"
Settled(p) == proc[p].pc = "done"

\* How many of the first n names are r.
Occurrences(names, n, r) == Cardinality({j \in 1..n : names[j] = r})

\* C1: a read with a TTL, executed again on the same builder with no
\* invalidation, expiry or store failure in between, returns what the first
\* execution returned and does not invoke the query engine.
C1_RoundTrip ==
    \A p \in Procs :
        (IsRead(p) /\ Settled(p) /\ proc[p].base # JSUndef)
        => /\ proc[p].outcome = Value(proc[p].base)
           /\ proc[p].calls = 0

\* C2: the first read of a builder after its cache was populated and an
\* invalidate of its resource has completed does not return from the cache;
\* when it returns, it has invoked the engine once and returns that result.
C2_MissAfterInvalidate ==
    \A p \in Procs :
        (IsRead(p) /\ proc[p].afterInv)
        => /\ proc[p].hitEra = -1
           /\ proc[p].outcome.t = "value"
              => /\ proc[p].calls = 1
                 /\ proc[p].outcome.v = proc[p].result

\* C2, witnessed: such a read has returned, and the entry written before the
\* invalidation is still in the store.
C2_Witness ==
    \E p \in Procs :
        /\ IsRead(p) /\ proc[p].afterInv /\ Settled(p)
        /\ proc[p].outcome.t = "value"
        /\ \E k \in DOMAIN store : store[k].ttl > 0 /\ k # proc[p].key

\* C3: a read that starts after an invalidate of its resource has completed
\* never returns an entry written before that invalidate began.
C3_NoStaleHit ==
    \A p \in Procs :
        (IsRead(p) /\ proc[p].hitEra >= 0)
        => proc[p].hitEra >= proc[p].startDone

\* C4: the stored version of a resource is its initialisation (0 or 1) plus
\* the number of bumps that invalidate calls have completed on it.
C4_NoLostBump ==
    \A r \in Resources : NumVer(store, r) = expect[r]

\* C5: the stored version of a resource never decreases in a step, and once
\* initialised it changes only in the set step of an invalidate of it.
C5_VersionMonotone ==
    [][\A r \in Resources :
          /\ NumVer(store', r) >= NumVer(store, r)
          /\ (NumVer(store, r) > 0 /\ NumVer(store', r) # NumVer(store, r))
             => \E p \in Procs :
                   /\ proc[p].pc = "invSet"
                   /\ proc[p].names[proc[p].i] = r
                   /\ proc'[p].i = proc[p].i + 1]_vars

\* C6: the version read that initialises a resource returns the number 1
\* and persists it, and every version read after it with no bump of the
\* resource in between returns the same value.
C6_StableVersion ==
    \A p \in Procs :
        (IsRead(p) /\ proc[p].key # <<>>)
        => /\ proc[p].wlog # <<>> /\ proc[p].wlog[1] = NsKey(proc[p].model)
              => proc[p].version = JSNum(1)
           /\ proc[p].verFirst # JSUndef
              => proc[p].version = proc[p].verFirst

\* C7: a read of a builder on which cache() was never called makes no store
\* operation, and returns what the engine answers to the query merged with
\* the options.
C7_NoTTLNoStore ==
    \A p \in Procs :
        (IsRead(p) /\ proc[p].ttl0 = JSNull)
        => /\ proc[p].sops = 0
           /\ proc[p].key = <<>>
           /\ proc[p].wlog = <<>>
           /\ proc[p].hitEra = -1
           /\ proc[p].outcome.t = "value"
              => /\ proc[p].calls = 1
                 /\ proc[p].arg = EffectiveQuery(proc[p].query0,
                                                 proc[p].options)
                 /\ proc[p].outcome.v = proc[p].result

\* C7, witnessed: such a read, called with { limit: 1 }, has returned while
\* the store holds a namespace version it never read.
C7_Witness ==
    \E p \in Procs :
        /\ IsRead(p) /\ proc[p].ttl0 = JSNull
        /\ Settled(p) /\ proc[p].outcome.t = "value"
        /\ proc[p].options.limit = JSNum(1)
        /\ NsKey(proc[p].model) \in DOMAIN store

\* C8: a read whose cache write fails still returns the engine's result.
C8_WriteFailureSwallowed ==
    \A p \in Procs :
        (IsRead(p) /\ proc[p].failedAt = "setCache")
        => proc[p].outcome = Value(proc[p].result)

\* C9: a read whose store read fails (the namespace version, or the cache
\* key) invokes the engine and ends with the engine's result or its error.
C9_ReadFailureIsMiss ==
    \A p \in Procs :
        (IsRead(p) /\ proc[p].failedAt \in {"nsGet", "check"})
        => /\ proc[p].calls = 1
           /\ proc[p].outcome.e # "StoreError"

\* C10: invalidate sets the version of modelName first, then of each related
\* model in the given order; a failed store operation ends the call with
\* that error, after which every bump made stays and no other version has
\* changed; an operation is never made twice.
C10_InvalidateInOrder ==
    \A p \in Procs :
        IsInvalidate(p) =>
        LET me == proc[p]
            given == <<me.model>> \o me.related
            n == Len(me.wlog)
        IN
        /\ n <= Len(given)
        /\ \A j \in 1..n : me.wlog[j] = NsKey(given[j])
        /\ me.failedAt \in {"invGet", "invSet"}
           => Settled(p) /\ me.outcome = Error("StoreError")
        /\ (Settled(p) /\ n < Len(given)) => me.outcome.t = "error"
        /\ me.outcome.t = "value" => n = Len(given)
        /\ me.sops = 2 * n + (CASE me.failedAt = "invGet" -> 1
                                [] me.failedAt = "invSet" -> 2
                                [] me.pc = "invSet" -> 1
                                [] OTHER -> 0)
        /\ \A r \in Resources :
              NumVer(store, r) = me.snap[r] + Occurrences(given, n, r)

\* C10, witnessed: invalidate("User", ["Post"]) has bumped User, failed on
\* Post and ended with the store's error.
C10_Witness ==
    \E p \in Procs :
        /\ IsInvalidate(p) /\ Settled(p)
        /\ proc[p].related = <<"Post">>
        /\ Len(proc[p].wlog) = 1
        /\ proc[p].outcome = Error("StoreError")
        /\ NumVer(store, "User") = proc[p].snap["User"] + 1

\* The filter map of a descriptor, without the order of insertion.
FilterMap(q) == {q.where[i] : i \in 1..Len(q.where)}

\* Two descriptors with the same filter map, projection, relation list,
\* sort order and pagination.
SameDescriptor(q1, q2) ==
    /\ FilterMap(q1) = FilterMap(q2)
    /\ q1.attributes = q2.attributes /\ q1.include = q2.include
    /\ q1.order = q2.order /\ q1.limit = q2.limit /\ q1.offset = q2.offset

\* C11: two builders of the same resource whose final descriptors are the
\* same derive, at the same namespace version and for the same method, the
\* same cache key, whatever the order of the calls that built them.
C11_KeyFromFinalState ==
    \A b1 \in DOMAIN qb, b2 \in DOMAIN qb :
        (/\ qb[b1].alive /\ qb[b2].alive /\ qb[b1].model = qb[b2].model
         /\ SameDescriptor(qb[b1].query, qb[b2].query))
        => \A v \in Versions, m \in Methods :
              CacheKey(qb[b1].model, v, m, qb[b1].query)
                  = CacheKey(qb[b2].model, v, m, qb[b2].query)

\* C12: a read that returns a cache entry returns one written by a read of
\* the same resource and method whose query, merged with its options, was
\* the query this read would send to the engine.
C12_NoForeignHit ==
    \A p \in Procs :
        (IsRead(p) /\ proc[p].hitEra >= 0)
        => /\ proc[p].hitFrom.model = proc[p].model
           /\ proc[p].hitFrom.method = proc[p].method
           /\ proc[p].hitFrom.arg = EffectiveQuery(proc[p].query0,
                                                   proc[p].options)

\* C13: no builder has a limit below 1 or an offset below 0, and a
\* paginate call with page < 1 or pageSize < 1 leaves the offset as it was.
C13_PaginateRejects ==
    \A b \in DOMAIN qb :
        LET q == qb[b].query
            paged == qb[b].seen.paged
        IN
        /\ q.limit # JSNull => q.limit.n >= 1
        /\ q.offset # JSNull => q.offset.n >= 0
        /\ (/\ paged # <<>>
            /\ \/ Default(paged[1], 1).n < 1
               \/ Default(paged[2], 10).n < 1)
           => q.offset = paged[3]

\* C14: while no client is set no builder exists, no read runs, every
\* invalidate call has ended with an error without a store operation, and
\* the store is as it was found.
C14_NoUseBeforeInit ==
    ~redisClient =>
        /\ \A b \in DOMAIN qb : ~qb[b].alive /\ qb[b].query = EmptyQuery
        /\ \A k \in DOMAIN store : store[k].ttl = 0
        /\ invSeq = 0
        /\ \A p \in Procs :
              /\ ~IsRead(p)
              /\ IsInvalidate(p)
                 => /\ Settled(p) /\ proc[p].outcome.t = "error"
                    /\ proc[p].sops = 0 /\ proc[p].calls = 0
                    /\ proc[p].wlog = <<>>
                    /\ \A r \in Resources :
                          NumVer(store, r) = proc[p].snap[r]

\* C14, witnessed: with no client set, a construction has thrown and an
\* invalidate call has been rejected.
C14_Witness ==
    /\ ~redisClient
    /\ \E b \in DOMAIN qb : qb[b].threw
    /\ \E p \in Procs :
          IsInvalidate(p) /\ Settled(p) /\ proc[p].outcome = Error("TypeError")

\* C15: a read whose engine call fails ends with the engine's error, has
\* called the engine once and has written no cache entry: its key is not
\* among its writes, and is absent from the store if the lookup found none.
C15_EngineErrorPropagates ==
    \A p \in Procs :
        (IsRead(p) /\ proc[p].failedAt = "engine")
        => /\ Settled(p)
           /\ proc[p].outcome = Error("EngineError")
           /\ proc[p].calls = 1
           /\ \A j \in 1..Len(proc[p].wlog) : proc[p].wlog[j] # proc[p].key
           /\ (proc[p].key # <<>> /\ ~proc[p].found)
              => proc[p].key \notin DOMAIN store

\* C15, witnessed: a read with a TTL has initialised the namespace, missed,
\* and ended with the engine's error.
C15_Witness ==
    \E p \in Procs :
        /\ IsRead(p) /\ proc[p].failedAt = "engine"
        /\ proc[p].key # <<>>
        /\ proc[p].wlog = <<NsKey(proc[p].model)>>

\* C16: a step of invalidate(R, deps) leaves every cache entry and every
\* namespace version of a resource it does not name as they were, removes no
\* key, and its set raises the version of the name it is at by 1.
C16_InvalidateOnlyVersions ==
    [][\A p \in Procs :
          (proc'[p].kind = "inv" /\ proc'[p] # proc[p])
          => LET me == proc'[p]
                 given == <<me.model>> \o me.related
                 named == {NsKey(given[j]) : j \in 1..Len(given)}
             IN
             /\ DOMAIN store \subseteq DOMAIN store'
             /\ (DOMAIN store') \ (DOMAIN store) \subseteq named
             /\ \A k \in DOMAIN store :
                   k \notin named => store'[k] = store[k]
             /\ \A k \in DOMAIN store' : store'[k].ttl > 0 => k \in DOMAIN store
             /\ (proc[p].pc = "invSet" /\ Len(me.wlog) = Len(proc[p].wlog) + 1)
                => LET name == proc[p].names[proc[p].i] IN
                   /\ NumVer(store', name) = NumVer(store, name) + 1
                   /\ \A r \in Resources \ {name} :
                         NumVer(store', r) = NumVer(store, r)]_vars

\* C16, witnessed: invalidate("User", ["Post"]) has completed and an entry
\* written before it began is still in the store.
C16_Witness ==
    \E p \in Procs :
        /\ IsInvalidate(p) /\ Settled(p) /\ proc[p].outcome.t = "value"
        /\ proc[p].related = <<"Post">>
        /\ NumVer(store, "Post") = proc[p].snap["Post"] + 1
        /\ \E k \in DOMAIN store : store[k].ttl > 0 /\ era[k] < proc[p].idx

\* C17: after every step the where object of a builder holds each key
\* mentioned by a filter call once, with the value of the last call that
\* mentioned it, and a step that changes the where object changes nothing
\* else of the builder.
C17_FilterLastWriteWins ==
    [][\A b \in DOMAIN qb :
          LET w == qb'[b].query.where
              latest == qb'[b].seen.latest
          IN
          /\ {w[i].k : i \in 1..Len(w)} = DOMAIN latest
          /\ \A i \in 1..Len(w) : w[i].v = latest[w[i].k]
          /\ \A i, j \in 1..Len(w) : w[i].k = w[j].k => i = j
          /\ w # qb[b].query.where
             => /\ qb'[b].query = [qb[b].query EXCEPT !.where = w]
                /\ qb'[b].cacheTTL = qb[b].cacheTTL
                /\ qb'[b].model = qb[b].model]_vars

\* C17, witnessed: filter calls have set status, then role, then status
\* again to another value, on a builder that has a projection.
C17_Witness ==
    \E b \in DOMAIN qb :
        /\ qb[b].seen.overwrote
        /\ Len(qb[b].query.where) = 2
        /\ qb[b].query.where[1] = [k |-> "status", v |-> JSStr(<<"banned">>)]
        /\ qb[b].query.attributes # JSNull

\* The projection select should assign: the names the model does not
\* declare as columns, or with a declared name among them, the columns in
\* the order requested followed by the [literal, name] of each declared one.
Projection(model, names) ==
    LET Declared(a) == a \in DOMAIN VirtualAttributes(model)
        Ordinary(a) == ~Declared(a)
        cols == SelectSeq(names, Ordinary)
        virt == SelectSeq(names, Declared)
    IN IF virt = <<>>
       THEN (IF cols = <<>> THEN JSNull
             ELSE JSNames([i \in 1..Len(cols) |-> Plain(cols[i])]))
       ELSE JSInclude([i \in 1..Len(cols) |-> Plain(cols[i])]
                      \o [i \in 1..Len(virt) |->
                            Virtual(VirtualAttributes(model)[virt[i]], virt[i])])

\* C18: after select(names) the projection holds every name the model does
\* not declare virtual as a column, in request order, and every declared
\* name as its [literal, name] pair.
C18_SelectPartition ==
    \A b \in DOMAIN qb :
        qb[b].seen.selected.called
        => qb[b].query.attributes
              = Projection(qb[b].model, qb[b].seen.selected.names)

\* C19: after paginate with page >= 1 and pageSize >= 1 the limit is
\* pageSize and the offset (page - 1) * pageSize, so page 1 starts at 0 and
\* the next page starts where this one ends.
C19_PaginateSets ==
    \A b \in DOMAIN qb :
        LET paged == qb[b].seen.paged
            page == Default(paged[1], 1).n
            pageSize == Default(paged[2], 10).n
            q == qb[b].query
        IN
        (paged # <<>> /\ page >= 1 /\ pageSize >= 1)
        => /\ q.limit = JSNum(pageSize)
           /\ q.offset = JSNum((page - 1) * pageSize)
           /\ page = 1 => q.offset.n = 0
           /\ PageOffset(JSNum(page + 1), JSNum(pageSize)).n
                 = q.offset.n + q.limit.n

\* C19, witnessed: paginate({ page: 2, pageSize: 2 }) on a builder that was
\* paginated before, to another offset.
C19_Witness ==
    \E b \in DOMAIN qb :
        LET paged == qb[b].seen.paged IN
        /\ paged # <<>>
        /\ paged[1] = JSNum(2) /\ paged[2] = JSNum(2)
        /\ paged[3] # JSNull /\ paged[3] # qb[b].query.offset

\* C20: a read whose lookup finds an entry under its key returns that entry
\* without invoking the engine.
C20_WrittenEntryIsHit ==
    \A p \in Procs :
        (IsRead(p) /\ proc[p].found)
        => /\ proc[p].hitEra >= 0
           /\ proc[p].calls = 0

\* C21: a step of a read (its call, a store operation, the engine call,
\* its return or its failure) leaves every builder as it was: filter map,
\* projection, relations, sort order, limit, offset and TTL.
C21_ReadLeavesBuilder ==
    [][\A p \in Procs :
          (proc'[p].kind = "read" /\ proc'[p] # proc[p]) => qb' = qb]_vars

\* C21, witnessed: a read called with { limit: 1 } on a builder with a TTL
\* has missed, called the engine and returned, and the builder has its
\* query and its TTL of before the call, with no limit.
C21_Witness ==
    \E p \in Procs :
        /\ IsRead(p) /\ Settled(p) /\ proc[p].outcome.t = "value"
        /\ proc[p].options.limit = JSNum(1)
        /\ proc[p].calls = 1 /\ proc[p].key # <<>>
        /\ qb[proc[p].b].query = proc[p].query0
        /\ qb[proc[p].b].cacheTTL = proc[p].ttl0
        /\ qb[proc[p].b].query.limit = JSNull

\* The cache entries a call has written: its store writes other than the
\* namespace version.
EntryWrites(pr) ==
    {j \in 1..Len(pr.wlog) : pr.wlog[j] # NsKey(pr.model)}

\* The number a version value stands for.
VersionNum(v) == IF v.t = "num" THEN v.n ELSE ParseInt(v.s)

\* C22: a read invokes the engine at most once and writes at most one cache
\* entry; it writes one only after a miss and a successful engine call,
\* with the TTL of the builder and under the key it looked up, derived from
\* the version it read; a read that returns from the cache has written no
\* cache entry and has not invoked the engine.
C22_OneEngineOneWrite ==
    \A p \in Procs :
        IsRead(p) =>
        LET me == proc[p] IN
        /\ me.calls <= 1
        /\ Cardinality(EntryWrites(me)) <= 1
        /\ EntryWrites(me) # {}
           => /\ me.calls = 1 /\ me.hitEra = -1
              /\ me.failedAt = "" /\ me.outcome = Value(me.result)
              /\ \A j \in EntryWrites(me) : me.wlog[j] = me.key
              /\ me.key = CacheKey(me.model, me.version, me.method, me.query0)
              /\ me.wttl = me.ttl0.n
        /\ me.hitEra >= 0 => EntryWrites(me) = {} /\ me.calls = 0

\* C22, witnessed: a read has written its entry under the key of the
\* version it read although the stored version was higher by then.
C22_Witness ==
    \E p \in Procs :
        /\ IsRead(p) /\ Settled(p) /\ EntryWrites(proc[p]) # {}
        /\ proc[p].wver > VersionNum(proc[p].version)

\* C22 as stated: a read that returns from the cache has made no store
\* write at all.
C22_HitWritesNothing ==
    \A p \in Procs :
        (IsRead(p) /\ proc[p].hitEra >= 0) => proc[p].wlog = <<>>

====
